---- MODULE Spec2Model ----
(***************************************************************************)
(* A model of the pleeplee-robot camera localisation core                  *)
(* (src/pleeplee/geometry.py, src/pleeplee/compute.py).                    *)
(*                                                                         *)
(* Python floats are IEEE-754 binary64 numbers.  They are modelled bit for *)
(* bit: a float is a record [s, m, e] standing for s * m * 2^e with a      *)
(* 53-bit significand m, and every arithmetic operation is the exact       *)
(* operation followed by round-to-nearest-even, as the hardware does it.   *)
(* Significands do not fit the model checker's integers, so naturals are   *)
(* kept as little-endian sequences of 13-bit limbs.                        *)
(***************************************************************************)
EXTENDS Integers, Sequences, FiniteSets, TLC

Abs(n) == IF n < 0 THEN -n ELSE n
Min(a, b) == IF a < b THEN a ELSE b
Max(a, b) == IF a < b THEN b ELSE a
Sign(n) == IF n < 0 THEN -1 ELSE IF n = 0 THEN 0 ELSE 1

(***************************************************************************)
(* Arbitrary-size naturals: little-endian sequences of limbs below Base,   *)
(* without leading zero limbs; <<>> is 0.  The arithmetic is written as    *)
(* functions, which receive their arguments evaluated; a sequence built    *)
(* limb by limb is concatenated to <<>> to have its limbs computed once.   *)
(***************************************************************************)
LimbBits == 10 + 3
Base == 2^LimbBits

Limb(a, i) == IF 1 <= i /\ i <= Len(a) THEN a[i] ELSE 0

\* a without leading zero limbs: it keeps the limbs up to the last non-zero one
BNorm[a \in Any] ==
    SubSeq(a, 1, Cardinality({i \in 1..Len(a) : \E j \in i..Len(a) : a[j] # 0}))

BFromInt[n \in Any] == IF n = 0 THEN <<>> ELSE <<n % Base>> \o BFromInt[n \div Base]

\* The limb sums s with the carries propagated.  Limb i receives a carry iff
\* some lower limb j overflows and every limb between j and i is full.
BCarry[s \in Any] ==
    BNorm[<<>> \o [i \in 1..Len(s) |->
            (s[i] + IF \E j \in 1..(i - 1) :
                         /\ s[j] >= Base
                         /\ \A k \in (j + 1)..(i - 1) : s[k] >= Base - 1
                    THEN 1 ELSE 0) % Base]]

\* a + b
BAdd[a \in Any, b \in Any] ==
    BCarry[<<>> \o [i \in 1..(Max(Len(a), Len(b)) + 1) |-> Limb(a, i) + Limb(b, i)]]

\* a - b for a >= b.  Limb i lends iff some lower limb j is short and no limb
\* between j and i has anything to spare.
BSub[a \in Any, b \in Any] ==
    BNorm[<<>> \o [i \in 1..Len(a) |->
            (a[i] - Limb(b, i) + Base
               - IF \E j \in 1..(i - 1) :
                      /\ a[j] < Limb(b, j)
                      /\ \A k \in (j + 1)..(i - 1) : a[k] <= Limb(b, k)
                 THEN 1 ELSE 0) % Base]]

\* -1, 0, 1 as a <, =, > b: the highest limb that differs decides
BCmp[a \in Any, b \in Any] ==
    IF Len(a) > Len(b) THEN 1
    ELSE IF Len(a) < Len(b) THEN -1
    ELSE IF a = b THEN 0
    ELSE IF \E i \in 1..Len(a) : a[i] > b[i] /\ \A j \in (i + 1)..Len(a) : a[j] = b[j]
         THEN 1 ELSE -1

\* a * Base^n
BShiftLimbs[a \in Any, n \in Any] ==
    IF a = <<>> THEN a ELSE [i \in 1..n |-> 0] \o a

\* a * k for 0 <= k <= Base
BMulSmall[a \in Any, k \in Any] ==
    BAdd[<<>> \o [i \in 1..Len(a) |-> (a[i] * k) % Base],
         <<0>> \o [i \in 1..Len(a) |-> (a[i] * k) \div Base]]

\* the sum of the limb products a[i] * b[j] with i + j = k + 1, from i on
BColumn[a \in Any, b \in Any, k \in Any, i \in Any] ==
    IF i > Len(a) \/ i > k THEN 0
    ELSE a[i] * Limb(b, k + 1 - i) + BColumn[a, b, k, i + 1]

\* the product from its column sums col
BMulColumns[col \in Any] ==
    BAdd[BAdd[<<>> \o [k \in DOMAIN col |-> col[k] % Base],
              <<0>> \o [k \in DOMAIN col |-> (col[k] \div Base) % Base]],
         <<0, 0>> \o [k \in DOMAIN col |-> col[k] \div (Base * Base)]]

\* a * b, for fewer than 32 limbs each
BMul[a \in Any, b \in Any] ==
    IF a = <<>> \/ b = <<>> THEN <<>>
    ELSE BMulColumns[<<>> \o [k \in 1..(Len(a) + Len(b) - 1) |-> BColumn[a, b, k, 1]]]

\* a * 2^n
BShl[a \in Any, n \in Any] ==
    BShiftLimbs[BMulSmall[a, 2^(n % LimbBits)], n \div LimbBits]

\* floor(d / 2^r) for r < LimbBits
BShrBits[d \in Any, r \in Any] ==
    BNorm[<<>> \o [i \in 1..Len(d) |->
            (d[i] \div 2^r) + (Limb(d, i + 1) % 2^r) * 2^(LimbBits - r)]]

\* floor(a / 2^n)
BShr[a \in Any, n \in Any] ==
    IF n \div LimbBits >= Len(a) THEN <<>>
    ELSE BShrBits[SubSeq(a, n \div LimbBits + 1, Len(a)), n % LimbBits]

\* a mod 2^n
BLow[a \in Any, n \in Any] ==
    BNorm[<<>> \o [i \in 1..Min(Len(a), n \div LimbBits + 1) |->
            IF i <= n \div LimbBits THEN a[i] ELSE a[i] % 2^(n % LimbBits)]]

\* the number of bits of n < Base * Base
IntBitLen[n \in Any] == Cardinality({k \in 0..(2 * LimbBits) : 2^k <= n})

BBitLen[a \in Any] ==
    IF a = <<>> THEN 0 ELSE LimbBits * (Len(a) - 1) + IntBitLen[a[Len(a)]]

BIsOdd[a \in Any] == a # <<>> /\ a[1] % 2 = 1

\* The quotient limb of r by b: the estimate qhat, or one or two less.
BDivDigit[b \in Any, r \in Any, qhat \in Any] ==
    IF BCmp[BMulSmall[b, qhat], r] <= 0 THEN qhat
    ELSE IF BCmp[BMulSmall[b, qhat - 1], r] <= 0 THEN qhat - 1
    ELSE qhat - 2

BDivRest[b \in Any, r \in Any, d \in Any] == <<d, BSub[r, BMulSmall[b, d]]>>

\* One step of the long division by b, whose top limb is at least Base / 2:
\* <<floor(r / b), r mod b>> for r < b * Base.  The quotient is estimated from
\* the top limbs of r and b.
BDivStep[b \in Any, r \in Any] ==
    BDivRest[b, r, BDivDigit[b, r,
        Min(Base - 1, (Limb(r, Len(b) + 1) * Base + Limb(r, Len(b))) \div b[Len(b)])]]

\* Long division by limbs of operands scaled by 2^sh: the limbs of a from j
\* down enter the remainder one at a time; st is the step before, <<its
\* quotient limb, its remainder>>.
BDivLimbs[a \in Any, b \in Any, j \in Any, q \in Any, st \in Any, sh \in Any] ==
    IF j = 0 THEN <<BNorm[<<st[1]>> \o q], BShr[st[2], sh]>>
    ELSE BDivLimbs[a, b, j - 1, <<st[1]>> \o q, BDivStep[b, BNorm[<<a[j]>> \o st[2]]], sh]

\* the division of an by bn, of n limbs, the top one at least Base / 2; the
\* top n - 1 limbs of an are the first remainder
BDivFrom[an \in Any, bn \in Any, n \in Any, sh \in Any] ==
    BDivLimbs[an, bn, Max(0, Len(an) - n + 1), <<>>,
              <<0, SubSeq(an, Max(0, Len(an) - n + 1) + 1, Len(an))>>, sh]

\* the shift that brings the top limb of b to at least Base / 2
BDivShift(b) == LimbBits - IntBitLen[b[Len(b)]]

\* <<floor(a / b), a mod b>> for b > 0
BDivMod[a \in Any, b \in Any] ==
    BDivFrom[BShl[a, BDivShift(b)], BShl[b, BDivShift(b)], Len(b), BDivShift(b)]

\* floor(sqrt(n)) for 0 < n < Base * Base, from h below it within 64
IntSqrtNear[n \in Any, h \in Any] ==
    h + Cardinality({k \in 1..63 : (h + k) * (h + k) <= n})

IntSqrt[n \in Any] ==
    IntSqrtNear[n, 64 * Cardinality({k \in 1..127 : (64 * k) * (64 * k) <= n})]

\* One step of Newton's iteration for the square root of a
BSqrtStep[a \in Any, x \in Any] == BShr[BAdd[x, BDivMod[a, x][1]], 1]

\* Newton's iteration for the integer square root of a, from x above it; y is
\* the step after x
BSqrtFrom[a \in Any, x \in Any, y \in Any] ==
    IF BCmp[y, x] < 0 THEN BSqrtFrom[a, y, BSqrtStep[a, y]] ELSE x

\* a number above sqrt(a), a # 0: from the root of a's top limbs
BSqrtAbove[a \in Any] ==
    BShiftLimbs[BFromInt[IntSqrt[IF Len(a) % 2 = 1 THEN a[Len(a)]
                                 ELSE a[Len(a)] * Base + a[Len(a) - 1]] + 1],
                (Len(a) - 1) \div 2]

\* floor(sqrt(a))
BISqrt[a \in Any] ==
    IF a = <<>> THEN a
    ELSE BSqrtFrom[a, BSqrtAbove[a], BSqrtStep[a, BSqrtAbove[a]]]

\* q, or q + 1: the nearest integer to a value q + f, ties to even, where f
\* is <, =, > 1/2 as c is -1, 0, 1, and sticky tells a little more than f
BRoundUp[q \in Any, c \in Any, sticky \in Any] ==
    IF c > 0 \/ (c = 0 /\ (sticky \/ BIsOdd[q])) THEN BAdd[q, <<1>>] ELSE q

\* a / 2^n rounded to the nearest integer, ties to even
BShrRound[a \in Any, n \in Any] ==
    IF n = 0 THEN a
    ELSE BRoundUp[BShr[a, n], BCmp[BLow[a, n], BShl[<<1>>, n - 1]], FALSE]

(***************************************************************************)
(* binary64 floats.                                                        *)
(***************************************************************************)
MantBits == 50 + 3

Zero == [s |-> 0, m |-> <<>>, e |-> 0]

\* the float s * q * 2^e for q of MantBits bits, or of one more after a
\* rounding that carried
Round53Carry[s \in Any, q \in Any, e \in Any] ==
    IF BBitLen[q] > MantBits THEN [s |-> s, m |-> BShr[q, 1], e |-> e + 1]
    ELSE [s |-> s, m |-> q, e |-> e]

Round53Bits[s \in Any, M \in Any, e \in Any, sticky \in Any, n \in Any] ==
    IF n <= MantBits
    THEN [s |-> s, m |-> BShl[M, MantBits - n], e |-> e - (MantBits - n)]
    ELSE Round53Carry[s, BRoundUp[BShr[M, n - MantBits],
                                  BCmp[BLow[M, n - MantBits], BShl[<<1>>, n - MantBits - 1]],
                                  sticky],
                      e + (n - MantBits)]

\* The float nearest to s * (M + f) * 2^e, where 0 <= f < 1 and f > 0 iff
\* sticky.  With sticky, M carries at least MantBits + 2 bits.
Round53[s \in Any, M \in Any, e \in Any, sticky \in Any] ==
    IF M = <<>> THEN Zero ELSE Round53Bits[s, M, e, sticky, BBitLen[M]]

\* The float nearest to s * (qr[1] + f) * 2^e for a quotient and remainder qr
RoundQuot[s \in Any, e \in Any, qr \in Any] == Round53[s, qr[1], e, qr[2] # <<>>]

FNeg[x \in Any] == [x EXCEPT !.s = -x.s]
FAbs[x \in Any] == [x EXCEPT !.s = Abs(x.s)]

\* Exact arithmetic on the values of floats (no rounding): the operands and
\* results are records [s, m, e] whose m need not have MantBits bits.
XMul[x \in Any, y \in Any] ==
    IF x.s = 0 \/ y.s = 0 THEN Zero
    ELSE [s |-> x.s * y.s, m |-> BMul[x.m, y.m], e |-> x.e + y.e]

\* sa * A * 2^e + sb * B * 2^e
XAddAligned[sa \in Any, A \in Any, sb \in Any, B \in Any, e \in Any] ==
    IF sa = sb THEN [s |-> sa, m |-> BAdd[A, B], e |-> e]
    ELSE IF A = B THEN Zero
    ELSE IF BCmp[A, B] > 0 THEN [s |-> sa, m |-> BSub[A, B], e |-> e]
    ELSE [s |-> sb, m |-> BSub[B, A], e |-> e]

XAdd[x \in Any, y \in Any] ==
    IF x.s = 0 THEN y
    ELSE IF y.s = 0 THEN x
    ELSE XAddAligned[x.s, BShl[x.m, x.e - Min(x.e, y.e)],
                     y.s, BShl[y.m, y.e - Min(x.e, y.e)], Min(x.e, y.e)]

XSub[x \in Any, y \in Any] == XAdd[x, FNeg[y]]
XInt[n \in Any] == [s |-> Sign(n), m |-> BFromInt[Abs(n)], e |-> 0]
\* the sign of x - y
XCmp[x \in Any, y \in Any] == XSub[x, y].s

\* The float nearest to an exact value.
Rnd[x \in Any] == Round53[x.s, x.m, x.e, FALSE]

FMul[x \in Any, y \in Any] == Rnd[XMul[x, y]]
FAdd[x \in Any, y \in Any] == Rnd[XAdd[x, y]]
FSub[x \in Any, y \in Any] == Rnd[XSub[x, y]]

IsPow2(x) == x.m = <<0, 0, 0, 0, 1>>

\* x / y for y # 0 (dividing by a power of two only moves the exponent)
FDiv[x \in Any, y \in Any] ==
    IF x.s = 0 THEN Zero
    ELSE IF IsPow2(y)
    THEN [s |-> x.s * y.s, m |-> x.m, e |-> x.e - y.e - (MantBits - 1)]
    ELSE RoundQuot[x.s * y.s, x.e - y.e - 64, BDivMod[BShl[x.m, 64], y.m]]

\* the float nearest to the square root of M * 2^(2 * e), whose integer part
\* is r * 2^e
FSqrtRound[M \in Any, e \in Any, r \in Any] == Round53[1, r, e, BCmp[BMul[r, r], M] # 0]

\* the shift k that makes x.e - k even and leaves the root of x.m * 2^k more
\* than MantBits + 2 bits
SqrtShift(x) == IF x.e % 2 = 0 THEN 70 ELSE 71

\* math.sqrt(x) for x >= 0
FSqrt[x \in Any] ==
    IF x.s = 0 THEN Zero
    ELSE FSqrtRound[BShl[x.m, SqrtShift(x)], (x.e - SqrtShift(x)) \div 2,
                    BISqrt[BShl[x.m, SqrtShift(x)]]]

\* -1, 0, 1 as x <, =, > y
FCmp[x \in Any, y \in Any] ==
    IF x.s # y.s THEN (IF x.s < y.s THEN -1 ELSE 1)
    ELSE IF x.s = 0 THEN 0
    ELSE IF x.e # y.e THEN (IF x.e < y.e THEN -x.s ELSE x.s)
    ELSE x.s * BCmp[x.m, y.m]

FLt[x \in Any, y \in Any] == FCmp[x, y] < 0
FGt[x \in Any, y \in Any] == FCmp[x, y] > 0
FEq[x \in Any, y \in Any] == FCmp[x, y] = 0

\* the shift that gives the quotient of N * 2^sh by D at least MantBits + 2
\* bits
RatioShift(N, D) == Max(0, BBitLen[D] + MantBits + 3 - BBitLen[N])

\* The float nearest to s * N / D (N, D naturals, D > 0): how Python reads a
\* decimal literal and how int / int divides.
FFromRatio[s \in Any, N \in Any, D \in Any] ==
    IF N = <<>> THEN Zero
    ELSE RoundQuot[s, -RatioShift(N, D), BDivMod[BShl[N, RatioShift(N, D)], D]]

\* float(n / d) for integers n and d > 0
Flt[n \in Any, d \in Any] == FFromRatio[Sign(n), BFromInt[Abs(n)], BFromInt[d]]

\* A * 2^e to the nearest integer, ties to even
BScale[A \in Any, e \in Any] == IF e >= 0 THEN BShl[A, e] ELSE BShrRound[A, -e]

\* Python's round(x, nd) on a float: the decimal with nd places nearest to the
\* exact value of x (ties to even), read back as a float.
PyRound[x \in Any, nd \in Any] ==
    IF x.s = 0 THEN Zero
    ELSE FFromRatio[x.s, BScale[BMul[x.m, BFromInt[10^nd]], x.e], BFromInt[10^nd]]

(***************************************************************************)
(* geometry.py                                                             *)
(***************************************************************************)
GEOMETRY_PRECISION == 3

\* Point._threshold = 0.1
Point_threshold == Flt[1, 10]

Point(x, y) == [X |-> x, Y |-> y]

\* sqrt(dx**2 + dy**2)
Hypot[dx \in Any, dy \in Any] == FSqrt[FAdd[FMul[dx, dx], FMul[dy, dy]]]

\* Point.distance
Point_distance[self \in Any, other \in Any] ==
    PyRound[Hypot[FSub[self.X, other.X], FSub[self.Y, other.Y]], GEOMETRY_PRECISION]

\* Point.__eq__ as a disc: the distance below the threshold
Point_eq_disc(self, other) ==
    FLt[Hypot[FSub[self.X, other.X], FSub[self.Y, other.Y]], Point_threshold]

\* Point.__eq__
Point_eq(self, other) ==
    /\ FLt[FAbs[FSub[self.X, other.X]], Point_threshold]
    /\ FLt[FAbs[FSub[self.Y, other.Y]], Point_threshold]

(***************************************************************************)
(* compute.py: landmarks and sightings                                     *)
(***************************************************************************)
PRECISION == 4

\* LED.__init__; x, y and height are given in tenths of a metre
LED(color, x, y, inPerimeter, height) ==
    [color |-> color, point |-> Point(Flt[x, 10], Flt[y, 10]),
     inPerimeter |-> inPerimeter, height |-> Flt[height, 10]]

\* A function's outcome: a returned value or a raised exception.
Return(v) == [exc |-> "none", val |-> v]
Raise(e) == [exc |-> e, val |-> <<>>]

\* _getLED: the index in perimeter of the first LED of that color
RECURSIVE getLEDFrom(_, _, _)
getLEDFrom(color, perimeter, i) ==
    IF i > Len(perimeter) THEN Raise("ValueError")
    ELSE IF perimeter[i].color = color THEN Return(i)
    ELSE getLEDFrom(color, perimeter, i + 1)

getLED(color, perimeter) == getLEDFrom(color, perimeter, 1)

\* An optional float: None, or a value.
None == [some |-> FALSE, v |-> Zero]
Some(x) == [some |-> TRUE, v |-> x]

\* Data.__init__: the object as the constructor leaves it.  led is the index
\* of the LED in perimeter; 0 stands for the attribute never having been
\* assigned (the ValueError of _getLED is caught and only printed).
Data_init(id, color, angle, angleNorth, angleToDirection, perimeter, distance) ==
    LET found == getLED(color, perimeter)
    IN  [id |-> id,
         angle |-> angle + angleToDirection + angleNorth,
         distance |-> distance,
         led |-> IF found.exc = "none" THEN found.val ELSE 0]

One == Flt[1, 1]
Two == Flt[2, 1]

\* math.cos(math.asin(r)) for |r| <= 1: exactly 1.0 at r = 0, and
\* sqrt(1 - r * r) otherwise, which is the library's result up to its last bits
CosAsin[r \in Any] == IF r.s = 0 THEN One ELSE FSqrt[FSub[One, FMul[r, r]]]

\* self.distance = d; return self.distance: <<outcome, the object afterwards>>
Data_store[self \in Any, d \in Any] ==
    <<Return(d), [self EXCEPT !.distance = Some(d)]>>

\* Data.adjustDistance from math.asin on (lines 141-144), ratio being
\* self.led.height / self.distance; math.asin raises ValueError outside
\* [-1, 1]
adjustFrom[self \in Any, dist \in Any, ratio \in Any] ==
    IF FGt[FAbs[ratio], One] THEN <<Raise("ValueError"), self>>
    ELSE Data_store[self, FDiv[FAdd[FMul[CosAsin[ratio], self.distance.v], dist], Two]]

\* Data.adjustDistance: <<outcome, the object afterwards>>
adjustDistance[self \in Any, dist \in Any, perimeter \in Any] ==
    IF ~self.distance.some THEN Data_store[self, dist]
    ELSE IF self.led = 0 THEN <<Raise("AttributeError"), self>>
    ELSE IF self.distance.v.s = 0 THEN <<Raise("ZeroDivisionError"), self>>
    ELSE adjustFrom[self, dist, FDiv[perimeter[self.led].height, self.distance.v]]

\* The direction of the vector (x, y) as math.atan2(y, x) orders it, in
\* (-180, 180]: 0 below the x axis, 1 on its positive side (and the null
\* vector), 2 above it, 3 on its negative side.
AngleClass(x, y) ==
    IF y.s < 0 THEN 0
    ELSE IF y.s > 0 THEN 2
    ELSE IF x.s < 0 THEN 3 ELSE 1

\* the direction of (x2, y2) is beyond that of (x1, y1)
AngleGt[x2 \in Any, y2 \in Any, x1 \in Any, y1 \in Any] ==
    IF AngleClass(x2, y2) # AngleClass(x1, y1) THEN AngleClass(x2, y2) > AngleClass(x1, y1)
    ELSE IF AngleClass(x1, y1) = 1 \/ AngleClass(x1, y1) = 3 THEN FALSE
    ELSE XCmp[XMul[x1, y2], XMul[y1, x2]] > 0

\* theta2 > theta1 for the directions of I2 - P1 and I1 - P1.  The angles are
\* compared exactly, where the code compares them rounded to PRECISION
\* decimals of a degree, and a negative zero is not told from zero.
ThetaGt[I2 \in Any, I1 \in Any, P1 \in Any] ==
    AngleGt[FSub[I2.X, P1.X], FSub[I2.Y, P1.Y], FSub[I1.X, P1.X], FSub[I1.Y, P1.Y]]

\* getPos2Dist from the two intersections on (lines 186-191)
Ordered[P1 \in Any, R1 \in Any, R2 \in Any, D \in Any, I1 \in Any, I2 \in Any] ==
    IF FEq[D, FAdd[R1, R2]] \/ FEq[D, FSub[R1, R2]] THEN Return(<<I1>>)
    ELSE IF ThetaGt[I2, I1, P1] THEN Return(<<I2, I1>>)
    ELSE Return(<<I1, I2>>)

\* chordmidpointx and chordmidpointy (lines 173-174): p and d are the
\* coordinate of P1 and dx or dy
Chordmidpoint(p, chorddistance, d, D) == FAdd[p, FDiv[FMul[chorddistance, d], D]]

\* (halfchordlength * dx) / D and (halfchordlength * dy) / D
Halfchord(halfchordlength, d, D) == FDiv[FMul[halfchordlength, d], D]

\* getPos2Dist from the chord's midpoint on (lines 173-191)
Intersects[P1 \in Any, P2 \in Any, R1 \in Any, R2 \in Any, D \in Any, chorddistance \in Any, halfchordlength \in Any] ==
    Ordered[P1, R1, R2, D,
            Point(PyRound[FAdd[Chordmidpoint(P1.X, chorddistance, FSub[P2.X, P1.X], D),
                               Halfchord(halfchordlength, FSub[P2.Y, P1.Y], D)], PRECISION],
                  PyRound[FSub[Chordmidpoint(P1.Y, chorddistance, FSub[P2.Y, P1.Y], D),
                               Halfchord(halfchordlength, FSub[P2.X, P1.X], D)], PRECISION]),
            Point(PyRound[FSub[Chordmidpoint(P1.X, chorddistance, FSub[P2.X, P1.X], D),
                               Halfchord(halfchordlength, FSub[P2.Y, P1.Y], D)], PRECISION],
                  PyRound[FAdd[Chordmidpoint(P1.Y, chorddistance, FSub[P2.Y, P1.Y], D),
                               Halfchord(halfchordlength, FSub[P2.X, P1.X], D)], PRECISION])]

\* R1**2 - chorddistance**2 (line 172)
Radicand(R1, chorddistance) == FSub[FMul[R1, R1], FMul[chorddistance, chorddistance]]

\* getPos2Dist from the chord distance on (lines 172-191); math.sqrt raises
\* ValueError on a negative argument
Chord[P1 \in Any, P2 \in Any, R1 \in Any, R2 \in Any, D \in Any, chorddistance \in Any] ==
    IF Radicand(R1, chorddistance).s < 0 THEN Raise("ValueError")
    ELSE Intersects[P1, P2, R1, R2, D, chorddistance, FSqrt[Radicand(R1, chorddistance)]]

\* getPos2Dist from the distance D of the centres on (lines 160-191)
Circles[P1 \in Any, P2 \in Any, R1 \in Any, R2 \in Any, D \in Any] ==
    IF FGt[D, FAdd[R1, R2]] THEN Return(<<>>)
    ELSE IF FLt[D, FAbs[FSub[R2, R1]]] THEN Return(<<>>)
    ELSE IF D.s = 0 /\ FEq[R1, R2] THEN Return(<<>>)
    ELSE IF D.s = 0 THEN Raise("ZeroDivisionError")
    ELSE Chord[P1, P2, R1, R2, D,
               FDiv[FAdd[FSub[FMul[R1, R1], FMul[R2, R2]], FMul[D, D]], FMul[Two, D]]]

\* getPos2Dist: the list of intersections, or the exception raised
getPos2Dist[data1 \in Any, data2 \in Any, perimeter \in Any] ==
    IF ~data1.distance.some \/ ~data2.distance.some THEN Raise("ValueError")
    ELSE IF data1.led = 0 \/ data2.led = 0 THEN Raise("AttributeError")
    ELSE Circles[perimeter[data1.led].point, perimeter[data2.led].point,
               data1.distance.v, data2.distance.v,
               Point_distance[perimeter[data1.led].point, perimeter[data2.led].point]]

(***************************************************************************)
(* compute.py: filterPoints.  shapely's Polygon(coords).contains(point) is *)
(* modelled by what it computes: whether the point lies in the interior of *)
(* the ring through coords (even-odd crossing count, the boundary          *)
(* excluded), decided exactly on the coordinates.                          *)
(***************************************************************************)
\* The sign of (b - a) x (p - a)
Orient[a \in Any, b \in Any, p \in Any] ==
    XCmp[XMul[XSub[b.X, a.X], XSub[p.Y, a.Y]], XMul[XSub[b.Y, a.Y], XSub[p.X, a.X]]]

Between(u, v, w) ==
    \/ XCmp[u, w] <= 0 /\ XCmp[w, v] <= 0
    \/ XCmp[v, w] <= 0 /\ XCmp[w, u] <= 0

OnSegment(a, b, p) ==
    Orient[a, b, p] = 0 /\ Between(a.X, b.X, p.X) /\ Between(a.Y, b.Y, p.Y)

\* The half-line from p towards +X crosses the edge from a to b
Crosses(a, b, p) ==
    /\ (XCmp[a.Y, p.Y] > 0) # (XCmp[b.Y, p.Y] > 0)
    /\ Orient[a, b, p] * XCmp[b.Y, a.Y] > 0

Next1(coords, i) == coords[(i % Len(coords)) + 1]

Polygon_contains(coords, p) ==
    /\ \A i \in DOMAIN coords : ~OnSegment(coords[i], Next1(coords, i), p)
    /\ Cardinality({i \in DOMAIN coords : Crosses(coords[i], Next1(coords, i), p)}) % 2 = 1

\* The coordinates of every LED, flagged or not
RECURSIVE Coords_all(_)
Coords_all(corners) ==
    IF corners = <<>> THEN <<>>
    ELSE <<Head(corners).point>> \o Coords_all(Tail(corners))

\* The coordinates of the LEDs flagged inPerimeter, in list order (lines 197-200)
RECURSIVE Coords(_)
Coords(corners) ==
    IF corners = <<>> THEN <<>>
    ELSE (IF Head(corners).inPerimeter THEN <<Head(corners).point>> ELSE <<>>)
         \o Coords(Tail(corners))

\* [value for value in solutions_2 if polygon.contains(value)], from element i
\* on; kept are the values kept so far
Keep[solutions \in Any, coords \in Any, i \in Any, kept \in Any] ==
    IF i > Len(solutions) THEN kept
    ELSE Keep[solutions, coords, i + 1,
              IF Polygon_contains(coords, solutions[i]) THEN Append(kept, solutions[i])
              ELSE kept]

\* filterPoints from the polygon on (lines 202-217); a ring needs three
\* coordinates
Within[solutions \in Any, coords \in Any] ==
    IF Len(coords) < 3 THEN Raise("ValueError") ELSE Return(Keep[solutions, coords, 1, <<>>])

\* filterPoints
filterPoints[solutions \in Any, corners \in Any] == Within[solutions, Coords(corners)]

(***************************************************************************)
(* compute.py: isAdjacent                                                  *)
(***************************************************************************)
\* The loop of isAdjacent from element i on: the final count
RECURSIVE AdjLoop(_, _, _, _, _, _)
AdjLoop(color1, color2, perimeter, i, start, count) ==
    IF i > Len(perimeter) THEN count
    ELSE IF perimeter[i].color = color1 \/ perimeter[i].color = color2
         THEN IF ~start
              THEN AdjLoop(color1, color2, perimeter, i + 1, TRUE, count + 1)
              ELSE count
         ELSE AdjLoop(color1, color2, perimeter, i + 1, start,
                      IF start THEN count + 1 ELSE count)

isAdjacent(color1, color2, perimeter) ==
    IF color1 = color2 THEN FALSE
    ELSE AdjLoop(color1, color2, perimeter, 1, FALSE, 0) \in {1, Len(perimeter)}

(***************************************************************************)
(* compute.py: the pair and triple solvers.  An exception raised by a      *)
(* callee ends the caller, with the sightings as the calls before it left  *)
(* them.                                                                   *)
(***************************************************************************)
\* distanceFromAngles.  Two sightings with the same bearing give the same
\* angleP twice, so sin(diff) = 0.0 and the result is (0, 0) (lines 296-301);
\* for any other pair the trigonometric estimate est is an input.
distanceFromAngles(data1, data2, est) ==
    IF data1.led = 0 \/ data2.led = 0 THEN Raise("AttributeError")
    ELSE IF data1.angle = data2.angle THEN Return(<<Zero, Zero>>)
    ELSE Return(est)

\* compute2Data after getPos2Dist returned or raised res (lines 313-314)
compute2Filter[data1 \in Any, data2 \in Any, perimeter \in Any, res \in Any] ==
    IF res.exc # "none" THEN <<res, data1, data2>>
    ELSE <<filterPoints[res.val, perimeter], data1, data2>>

\* compute2Data after data2.adjustDistance gave a2 (lines 312-314)
compute2Locate[data1 \in Any, perimeter \in Any, a2 \in Any] ==
    IF a2[1].exc # "none" THEN <<a2[1], data1, a2[2]>>
    ELSE compute2Filter[data1, a2[2], perimeter, getPos2Dist[data1, a2[2], perimeter]]

\* compute2Data after data1.adjustDistance gave a1 (lines 311-314)
compute2Second[data2 \in Any, dist2 \in Any, perimeter \in Any, a1 \in Any] ==
    IF a1[1].exc # "none" THEN <<a1[1], a1[2], data2>>
    ELSE compute2Locate[a1[2], perimeter, adjustDistance[data2, dist2, perimeter]]

\* compute2Data: <<outcome, data1 afterwards, data2 afterwards>>
compute2Data[data1 \in Any, data2 \in Any, est \in Any, perimeter \in Any] ==
    IF distanceFromAngles(data1, data2, est).exc # "none"
    THEN <<distanceFromAngles(data1, data2, est), data1, data2>>
    ELSE compute2Second[data2, distanceFromAngles(data1, data2, est).val[2], perimeter,
                        adjustDistance[data1, distanceFromAngles(data1, data2, est).val[1],
                                       perimeter]]

\* compute3Data after res1, res2 and res3 (lines 321-322); r1 and r2 are the
\* outcomes of the first two pairs, r3 what the third pair gave
compute3Pool[r1 \in Any, r2 \in Any, r3 \in Any] ==
    IF r3[1].exc # "none" THEN <<r3[1], <<r3[2], r2[2], r3[3]>>>>
    ELSE <<Return(r1[1].val \o r2[1].val \o r3[1].val), <<r3[2], r2[2], r3[3]>>>>

\* compute3Data after res1 and res2 (lines 320-322)
compute3Third[est \in Any, perimeter \in Any, r1 \in Any, r2 \in Any] ==
    IF r2[1].exc # "none" THEN <<r2[1], <<r1[2], r2[2], r2[3]>>>>
    ELSE compute3Pool[r1, r2, compute2Data[r1[2], r2[3], est[3], perimeter]]

\* compute3Data after res1 (lines 319-322)
compute3Second[data3 \in Any, est \in Any, perimeter \in Any, r1 \in Any] ==
    IF r1[1].exc # "none" THEN <<r1[1], <<r1[2], r1[3], data3>>>>
    ELSE compute3Third[est, perimeter, r1, compute2Data[r1[3], data3, est[2], perimeter]]

\* compute3Data: <<outcome, the three sightings afterwards>>; est holds the
\* estimates for the pairs (1, 2), (2, 3) and (1, 3)
compute3Data[data1 \in Any, data2 \in Any, data3 \in Any, est \in Any, perimeter \in Any] ==
    compute3Second[data3, est, perimeter, compute2Data[data1, data2, est[1], perimeter]]

(***************************************************************************)
(* compute.py: the consensus                                               *)
(***************************************************************************)
\* the loop of hasManyOccurencies from element i on: the final count
Occurencies[elt \in Any, listx \in Any, i \in Any, count \in Any] ==
    IF i > Len(listx) THEN count
    ELSE Occurencies[elt, listx, i + 1, IF Point_eq(elt, listx[i]) THEN count + 1 ELSE count]

\* _threshold = 80.0
hasManyOccurencies_threshold == Flt[80, 1]

\* hasManyOccurencies with a strict bar
hasManyOccurencies_strict(elt, listx) ==
    FGt[Flt[Occurencies[elt, listx, 1, 0] * 100, Len(listx)], hasManyOccurencies_threshold]

\* hasManyOccurencies, for a non-empty listx
hasManyOccurencies(elt, listx) ==
    ~FLt[Flt[Occurencies[elt, listx, 1, 0] * 100, Len(listx)], hasManyOccurencies_threshold]

\* [x for x in data_array if hasManyOccurencies(x, data_array)], from element
\* i on; kept are the elements kept so far
RetainedFrom[data_array \in Any, i \in Any, kept \in Any] ==
    IF i > Len(data_array) THEN kept
    ELSE RetainedFrom[data_array, i + 1,
                      IF hasManyOccurencies(data_array[i], data_array)
                      THEN Append(kept, data_array[i]) ELSE kept]

Retained(data_array) == RetainedFrom[data_array, 1, <<>>]

\* x += i.X, y += i.Y over the list from i on
SumFrom[list \in Any, i \in Any, acc \in Any] ==
    IF i > Len(list) THEN acc
    ELSE SumFrom[list, i + 1, Point(FAdd[acc.X, list[i].X], FAdd[acc.Y, list[i].Y])]

\* sortData from the sums on (line 343)
Mean[sum \in Any, n \in Any] == Return(Point(FDiv[sum.X, n], FDiv[sum.Y, n]))

\* sortData from the retained list on (lines 338-343); len(data_array) = 0
\* makes the division raise
Average[kept \in Any] ==
    IF kept = <<>> THEN Raise("ZeroDivisionError")
    ELSE Mean[SumFrom[kept, 1, Point(Zero, Zero)], Flt[Len(kept), 1]]

\* sortData
sortData[data_array \in Any] == Average[Retained(data_array)]

VARIABLES
    perimeter,   \* the registry: the list of LEDs handed to every call
    datas,       \* the Data objects the caller holds, in creation order
    points,      \* the list of candidate points the caller holds
    ids,         \* Data._ids, the class-wide instance counter
    call,        \* the call made (or about to be made) and its arguments
    ret          \* its outcome
vars == <<perimeter, datas, points, ids, call, ret>>

\* The garden of the module's docstring (compute.py lines 34-46), with a
\* raised landmark and one that is not on the perimeter.
Garden ==
    << LED("red", 0, 0, TRUE, 0), LED("green", 100, 0, TRUE, 0),
       LED("blue", 100, 100, TRUE, 30), LED("yellow", 0, 100, TRUE, 0),
       LED("cyan", 50, 50, FALSE, 0) >>

Occurs(color) == \E i \in DOMAIN perimeter : perimeter[i].color = color

(***************************************************************************)
(* Sightings: the caller creates sightings and refines their distances.    *)
(***************************************************************************)
MaxData == 2
MaxAdjust == 2

SightedColors == {"red", "blue", "white"}
Measurements == {Zero, Flt[5, 1], Flt[8, 1]}
GivenDistances == {None, Some(Flt[7, 1])}

InitSighting ==
    /\ perimeter = Garden
    /\ datas = <<>>
    /\ points = <<>>
    /\ ids = 0
    /\ call = [op |-> "none", n |-> 0]
    /\ ret = Return(<<>>)

\* Data(color, 30, 0, 15, perimeter, distance): the constructor returns the
\* object whatever _getLED did
NewData ==
    /\ Len(datas) < MaxData
    /\ \E color \in SightedColors, distance \in GivenDistances :
         /\ datas' = Append(datas, Data_init(ids, color, 30, 0, 15, perimeter, distance))
         /\ call' = [op |-> "Data", color |-> color, n |-> call.n]
    /\ ids' = ids + 1
    /\ ret' = Return(Len(datas'))
    /\ UNCHANGED <<perimeter, points>>

\* datas[i].adjustDistance(dist)
AdjustDistance ==
    /\ call.n < MaxAdjust
    /\ \E i \in DOMAIN datas, dist \in Measurements :
         \E r \in {adjustDistance[datas[i], dist, perimeter]} :
             /\ ret' = r[1]
             /\ datas' = [datas EXCEPT ![i] = r[2]]
             /\ call' = [op |-> "adjustDistance", self |-> i, dist |-> dist,
                         before |-> datas[i].distance, n |-> call.n + 1]
    /\ UNCHANGED <<perimeter, points, ids>>

NextSighting == NewData \/ AdjustDistance
SpecSighting == InitSighting /\ [][NextSighting]_vars

\* C1: creating a sighting for a color no landmark of the registry has fails
\* with an error surfaced to the caller, and leaves the caller no sighting
\* that lacks its landmark.
C1_UnknownColorFails ==
    (call.op = "Data" /\ ~Occurs(call.color))
        => (ret.exc # "none" /\ \A i \in DOMAIN datas : datas[i].led # 0)

\* C7: adjustDistance on a sighting without a distance stores and returns the
\* new measurement; on a sighting with distance d whose landmark has height 0
\* it stores and returns (d + new) / 2; the distance is set afterwards.
C7_AdjustDistanceAverages ==
    (call.op = "adjustDistance" /\ datas[call.self].led # 0)
        => IF ~call.before.some
           THEN /\ ret = Return(call.dist)
                /\ datas[call.self].distance = Some(call.dist)
           ELSE perimeter[datas[call.self].led].height.s = 0
                => /\ ret = Return(FDiv[FAdd[call.before.v, call.dist], Two])
                   /\ datas[call.self].distance = Some(ret.val)

(***************************************************************************)
(* The triple solver on three sightings of red, green and blue.            *)
(***************************************************************************)
FlatGarden ==
    << LED("red", 0, 0, TRUE, 0), LED("green", 100, 0, TRUE, 0),
       LED("blue", 100, 100, TRUE, 0), LED("yellow", 0, 100, TRUE, 0) >>

FusionGardens == {Garden, FlatGarden}
Bearings == {30, 60}
\* (d1, d2) as distanceFromAngles may estimate them for a pair
Estimates == { <<Flt[6, 1], Flt[8, 1]>>, <<Flt[75, 10], Flt[7, 1]>> }

InitFusion ==
    /\ perimeter \in FusionGardens
    /\ \E a1 \in Bearings, a2 \in Bearings, a3 \in Bearings :
         datas = << Data_init(0, "red", a1, 0, 0, perimeter, None),
                    Data_init(1, "green", a2, 0, 0, perimeter, None),
                    Data_init(2, "blue", a3, 0, 0, perimeter, None) >>
    /\ points = <<>>
    /\ ids = 3
    /\ call = [op |-> "none"]
    /\ ret = Return(<<>>)

\* compute3Data(datas[1], datas[2], datas[3], ...)
Compute3Data ==
    /\ call.op = "none"
    /\ \E e1 \in Estimates, e2 \in Estimates, e3 \in Estimates :
         \E r \in {compute3Data[datas[1], datas[2], datas[3], <<e1, e2, e3>>, perimeter]} :
             /\ ret' = r[1]
             /\ datas' = r[2]
             /\ call' = [op |-> "compute3Data", before |-> datas, est |-> <<e1, e2, e3>>]
    /\ UNCHANGED <<perimeter, points, ids>>

NextFusion == Compute3Data
SpecFusion == InitFusion /\ [][NextFusion]_vars

Degenerate(d1, d2) == d1.angle = d2.angle

\* C2: when a pair of the triple is degenerate (its estimate is (0, 0)) and so
\* contributes no candidate, compute3Data still solves the other pairs and
\* returns the pooled list: it never aborts with an error.
C2_TripleNeverAborts ==
    (/\ call.op = "compute3Data"
     /\ \/ Degenerate(call.before[1], call.before[2])
        \/ Degenerate(call.before[2], call.before[3])
        \/ Degenerate(call.before[1], call.before[3]))
        => ret.exc = "none"

(***************************************************************************)
(* Circle intersection on two sightings.                                   *)
(***************************************************************************)
CircleGarden ==
    << LED("red", 0, 0, TRUE, 0), LED("green", 29, 0, TRUE, 0),
       LED("blue", 30, 0, TRUE, 0), LED("yellow", 30, 40, TRUE, 0) >>

FirstColors == {"red", "blue"}
SecondColors == {"red", "green", "blue", "yellow"}
Radii == {None} \cup {Some(Flt[k, 10]) : k \in {0, 4, 20, 25, 30, 50}}

InitCircle ==
    /\ perimeter = CircleGarden
    /\ datas = <<>>
    /\ points = <<>>
    /\ ids = 0
    /\ call \in [op : {"input"}, color1 : FirstColors, color2 : SecondColors,
                 distance1 : Radii, distance2 : Radii]
    /\ ret = Return(<<>>)

\* getPos2Dist(Data(color1, ..., distance1), Data(color2, ..., distance2))
GetPos2Dist ==
    /\ call.op = "input"
    /\ datas' = << Data_init(ids, call.color1, 0, 0, 0, perimeter, call.distance1),
                   Data_init(ids + 1, call.color2, 0, 0, 0, perimeter, call.distance2) >>
    /\ ids' = ids + 2
    /\ ret' = getPos2Dist[datas'[1], datas'[2], perimeter]
    /\ call' = [call EXCEPT !.op = "getPos2Dist"]
    /\ UNCHANGED <<perimeter, points>>

NextCircle == GetPos2Dist
SpecCircle == InitCircle /\ [][NextCircle]_vars

BothDistances == call.op = "getPos2Dist" /\ call.distance1.some /\ call.distance2.some
CenterDistance == Point_distance[perimeter[datas[1].led].point, perimeter[datas[2].led].point]
R1 == call.distance1.v
R2 == call.distance2.v

\* C6: for two sightings that both have a distance, getPos2Dist returns the
\* empty list exactly when D > R1 + R2, or D < |R1 - R2|, or D = 0 and
\* R1 = R2; in every other case it returns one or two points; it never raises.
C6_EmptyIffNoIntersection ==
    BothDistances
        => /\ ret.exc = "none"
           /\ (ret.val = <<>>) <=> (\/ FGt[CenterDistance, FAdd[R1, R2]]
                                    \/ FLt[CenterDistance, FAbs[FSub[R1, R2]]]
                                    \/ CenterDistance.s = 0 /\ FEq[R1, R2])
           /\ Len(ret.val) <= 2

\* C9: the number of points getPos2Dist returns is the same with the two
\* circles swapped, and an internal tangency (D = |R1 - R2|, D > 0) gives
\* exactly one point in both orders.
C9_CountSymmetric ==
    BothDistances
        => \A swapped \in {getPos2Dist[datas[2], datas[1], perimeter]} :
             (ret.exc = "none" /\ swapped.exc = "none")
                => /\ Len(ret.val) = Len(swapped.val)
                   /\ (CenterDistance.s > 0 /\ FEq[CenterDistance, FAbs[FSub[R1, R2]]])
                         => Len(ret.val) = 1

(***************************************************************************)
(* The consensus on a pooled list of candidates.                           *)
(***************************************************************************)
MaxPool == 5

\* two candidates 0.08 apart on each axis, and a far one
Candidates ==
    { Point(Flt[5, 1], Flt[5, 1]), Point(Flt[508, 100], Flt[508, 100]),
      Point(Flt[9, 1], Flt[1, 1]) }
Pools == UNION { [1..n -> Candidates] : n \in 0..MaxPool }

InitConsensus ==
    /\ perimeter = Garden
    /\ datas = <<>>
    /\ points \in Pools
    /\ ids = 0
    /\ call = [op |-> "none"]
    /\ ret = Return(<<>>)

\* sortData(points)
SortData ==
    /\ call.op = "none"
    /\ ret' = sortData[points]
    /\ call' = [op |-> "sortData"]
    /\ UNCHANGED <<perimeter, datas, points, ids>>

NextConsensus == SortData
SpecConsensus == InitConsensus /\ [][NextConsensus]_vars

\* The points of the list that are == to at least 80% of the list
Frequent(list) ==
    SelectSeq(list, LAMBDA p :
        100 * Cardinality({j \in DOMAIN list : Point_eq(p, list[j])}) >= 80 * Len(list))

RECURSIVE XSumX(_)
XSumX(list) == IF list = <<>> THEN Zero ELSE XAdd[Head(list).X, XSumX(Tail(list))]
RECURSIVE XSumY(_)
XSumY(list) == IF list = <<>> THEN Zero ELSE XAdd[Head(list).Y, XSumY(Tail(list))]

\* |n * mean - sum| <= 2^-40: mean is sum / n up to the rounding of the float
\* operations
IsMean(mean, sum, n) ==
    XCmp[FAbs[XSub[XMul[mean, XInt[n]], sum]], [s |-> 1, m |-> <<1>>, e |-> -40]] <= 0

\* C3: sortData fails with an explicit NoConsensus error whenever no point is
\* retained, the pooled list being empty or not.
C3_EmptyRetainedIsNoConsensus ==
    (call.op = "sortData" /\ Frequent(points) = <<>>) => ret.exc = "NoConsensus"

\* C4: on a non-empty pooled list sortData retains exactly the points p with
\* (number of points == p) * 100 / (size of the list) >= 80 and, when there
\* are any, returns the point whose X and Y are the means of theirs.
C4_RetainsFrequentReturnsMean ==
    (call.op = "sortData" /\ points # <<>>)
        => /\ Retained(points) = Frequent(points)
           /\ Frequent(points) # <<>>
                => /\ ret.exc = "none"
                   /\ IsMean(ret.val.X, XSumX(Frequent(points)), Len(Frequent(points)))
                   /\ IsMean(ret.val.Y, XSumY(Frequent(points)), Len(Frequent(points)))

\* a pool of five with a cluster of four and one far outlier, whose result is
\* the mean of the four
C4_Witness ==
    /\ call.op = "sortData"
    /\ Len(points) = 5
    /\ Len(Frequent(points)) = 4
    /\ Cardinality({points[i] : i \in DOMAIN points}) = 3
    /\ ret.exc = "none"
    /\ FLt[ret.val.X, Flt[51, 10]] /\ FGt[ret.val.X, Flt[5, 1]]

(***************************************************************************)
(* The approximate equality of two points.                                 *)
(***************************************************************************)
Offsets == {500, 505, 508, 510, 512}
Grid == { Point(Flt[a, 100], Flt[b, 100]) : a \in Offsets, b \in Offsets }

InitEquality ==
    /\ perimeter = Garden
    /\ datas = <<>>
    /\ points = <<>>
    /\ ids = 0
    /\ call \in [op : {"input"}, p : Grid, q : Grid]
    /\ ret = Return(<<>>)

\* p == q
PointEq ==
    /\ call.op = "input"
    /\ ret' = Return(Point_eq(call.p, call.q))
    /\ call' = [call EXCEPT !.op = "eq"]
    /\ UNCHANGED <<perimeter, datas, points, ids>>

NextEquality == PointEq
SpecEquality == InitEquality /\ [][NextEquality]_vars

\* (p.X - q.X)^2 + (p.Y - q.Y)^2 < 0.1^2, exactly
Closer(p, q) ==
    XCmp[XAdd[XMul[XSub[p.X, q.X], XSub[p.X, q.X]], XMul[XSub[p.Y, q.Y], XSub[p.Y, q.Y]]],
         XMul[Point_threshold, Point_threshold]] < 0

MaxSolutions == 3

\* red, green and blue on the perimeter, yellow off it
TriangleGarden ==
    << LED("red", 0, 0, TRUE, 0), LED("green", 100, 0, TRUE, 0),
       LED("blue", 100, 100, TRUE, 0), LED("yellow", 0, 100, FALSE, 0) >>

FilterGardens == {Garden, TriangleGarden}
Probes ==
    { Point(Flt[36, 10], Flt[48, 10]), Point(Flt[2, 1], Flt[5, 1]),
      Point(Flt[5, 1], Flt[5, 1]), Point(Zero, Zero), Point(Flt[12, 1], Flt[3, 1]) }
Solutions == UNION { [1..n -> Probes] : n \in 0..MaxSolutions }

InitFilter ==
    /\ perimeter \in FilterGardens
    /\ datas = <<>>
    /\ points \in Solutions
    /\ ids = 0
    /\ call = [op |-> "none"]
    /\ ret = Return(<<>>)

\* filterPoints(points, perimeter)
FilterPoints ==
    /\ call.op = "none"
    /\ ret' = filterPoints[points, perimeter]
    /\ call' = [op |-> "filterPoints"]
    /\ UNCHANGED <<perimeter, datas, points, ids>>

NextFilter == FilterPoints
SpecFilter == InitFilter /\ [][NextFilter]_vars

\* The positions of the landmarks flagged inPerimeter, in registration order
Flagged == SelectSeq(perimeter, LAMBDA l : l.inPerimeter)
Vertices == [i \in DOMAIN Flagged |-> Flagged[i].point]

\* Vertices turns the same way at every vertex
IsConvex ==
    /\ Len(Vertices) >= 3
    /\ \E sgn \in {-1, 1} : \A i \in DOMAIN Vertices :
         Orient[Vertices[i], Next1(Vertices, i), Next1(Vertices, (i % Len(Vertices)) + 1)] = sgn

\* p is strictly on the inner side of every edge of the convex polygon
StrictlyInside(p) ==
    \E sgn \in {-1, 1} : \A i \in DOMAIN Vertices :
        Orient[Vertices[i], Next1(Vertices, i), p] = sgn

\* C8: filterPoints returns, in their input order and unaltered, exactly the
\* input points strictly inside the polygon whose vertices are the positions
\* of the landmarks flagged inPerimeter in registration order, and raises
\* nothing (checked on convex perimeters, where strictly inside means
\* strictly on the inner side of every edge).
C8_KeepsStrictlyInside ==
    (call.op = "filterPoints" /\ IsConvex)
        => ret = Return(SelectSeq(points, StrictlyInside))

\* a registry with a landmark off the perimeter, and a list from which some
\* points are kept and some are dropped
C8_Witness ==
    /\ call.op = "filterPoints"
    /\ IsConvex
    /\ Len(Flagged) < Len(perimeter)
    /\ ret.exc = "none"
    /\ 0 < Len(ret.val) /\ Len(ret.val) < Len(points)

(***************************************************************************)
(* Adjacency of two landmarks in the perimeter list.                       *)
(***************************************************************************)
Colors == {"red", "green", "blue", "yellow", "cyan", "white"}
AdjacentGardens == { SubSeq(Garden, 1, n) : n \in 2..Len(Garden) }

InitAdjacent ==
    /\ perimeter \in AdjacentGardens
    /\ datas = <<>>
    /\ points = <<>>
    /\ ids = 0
    /\ call \in [op : {"input"}, color1 : Colors, color2 : Colors]
    /\ ret = Return(<<>>)

\* isAdjacent(color1, color2, perimeter)
IsAdjacent ==
    /\ call.op = "input"
    /\ ret' = Return(isAdjacent(call.color1, call.color2, perimeter))
    /\ call' = [call EXCEPT !.op = "isAdjacent"]
    /\ UNCHANGED <<perimeter, datas, points, ids>>

NextAdjacent == IsAdjacent
SpecAdjacent == InitAdjacent /\ [][NextAdjacent]_vars

Position(color) == CHOOSE i \in DOMAIN perimeter : perimeter[i].color = color
Follows(i, j) == (i % Len(perimeter)) + 1 = j

\* C10: for two distinct colors of the perimeter list, isAdjacent is true
\* exactly when the two landmarks are at cyclically consecutive positions
\* (the last and the first included), and is the same in both argument orders.
C10_AdjacentIffConsecutive ==
    (/\ call.op = "isAdjacent"
     /\ call.color1 # call.color2
     /\ Occurs(call.color1) /\ Occurs(call.color2))
        => /\ ret.val <=> \/ Follows(Position(call.color1), Position(call.color2))
                          \/ Follows(Position(call.color2), Position(call.color1))
           /\ ret.val = isAdjacent(call.color2, call.color1, perimeter)
====
